---------------------------- MODULE Spec2Model ----------------------------
(***************************************************************************)
(* Model of the AI visibility checker: the POST handler of the analyze     *)
(* route (fetch, parse, ten criterion evaluators, aggregation and          *)
(* recommendations).                                                       *)
(*                                                                         *)
(* The body text of a fetched page is a bag of text pieces: the text is    *)
(* the concatenation of " " \o piece \o "." for every copy of every piece. *)
(* No keyword of the scoring tables contains ". ", so no keyword match     *)
(* spans two pieces, and words, sentences and quote characters add up      *)
(* piece by piece.  Times are counted in days.                             *)
(***************************************************************************)
EXTENDS Integers, Sequences, FiniteSets, TLC

(***************************************************************************)
(* Strings, as the JavaScript string methods used by the handler.          *)
(***************************************************************************)
charAt(s, i) == SubSeq(s, i, i)

includes(s, kw) ==
    \E i \in 1..(Len(s) - Len(kw) + 1) : SubSeq(s, i, i + Len(kw) - 1) = kw

Whitespace == {" ", "\t", "\n"}

\* s.trim(): the part of s from its first to its last non-blank character
trim(s) ==
    LET inked == {i \in 1..Len(s) : charAt(s, i) \notin Whitespace}
    IN  IF inked = {} THEN ""
        ELSE SubSeq(s, CHOOSE i \in inked : \A j \in inked : i <= j,
                       CHOOSE i \in inked : \A j \in inked : i >= j)

\* s.split(sep) for a one-character separator class: every separator
\* delimits, so consecutive separators yield empty segments.  Halving keeps
\* the recursion depth logarithmic in the length of s.
RECURSIVE splitEach(_, _)
splitEach(s, seps) ==
    IF Len(s) = 0 THEN <<"">>
    ELSE IF Len(s) = 1 THEN (IF s \in seps THEN <<"", "">> ELSE <<s>>)
    ELSE LET half  == Len(s) \div 2
             left  == splitEach(SubSeq(s, 1, half), seps)
             right == splitEach(SubSeq(s, half + 1, Len(s)), seps)
         IN  SubSeq(left, 1, Len(left) - 1)
               \o <<left[Len(left)] \o right[1]>>
               \o SubSeq(right, 2, Len(right))

\* s.split(/[seps]+/): a run of separators delimits once, so the empty
\* segments strictly inside the result of splitEach disappear.
split(s, seps) ==
    LET each == splitEach(s, seps)
        kept == {i \in 1..Len(each) : i = 1 \/ i = Len(each) \/ each[i] # ""}
        nth(k) == CHOOSE i \in kept : Cardinality({j \in kept : j < i}) = k - 1
    IN  [k \in 1..Cardinality(kept) |-> each[nth(k)]]

wordsOf(text) == SelectSeq(split(trim(text), Whitespace), LAMBDA word : Len(word) > 0)

countWords(text) == Len(wordsOf(text))

sentencesOf(text) ==
    SelectSeq(split(text, {".", "!", "?"}), LAMBDA sentence : Len(trim(sentence)) > 0)

longWordsOf(text) == SelectSeq(wordsOf(text), LAMBDA word : Len(word) > 6)

RECURSIVE repeat(_, _)
repeat(s, n) ==
    IF n = 0 THEN ""
    ELSE IF n = 1 THEN s
    ELSE repeat(s, n \div 2) \o repeat(s, n - (n \div 2))

Digits == <<"0", "1", "2", "3", "4", "5", "6", "7", "8", "9">>

\* Number.prototype.toString for a natural number
RECURSIVE toString(_)
toString(n) ==
    IF n < 10 THEN Digits[n + 1] ELSE toString(n \div 10) \o Digits[(n % 10) + 1]

(***************************************************************************)
(* The scoring tables of the handler.                                      *)
(***************************************************************************)
tableOfContentsKeywords == {"table of contents", "contents"}

authorKeywords == {"written by", "author:", "by ", "published by"}

bioKeywords == {"bio", "about the author", "profile", "credentials"}

expertiseKeywords ==
    {"expert", "specialist", "phd", "professor", "researcher", "years of experience"}

schemaMarkers == {"schema.org", "application/ld+json"}

aiKeywords ==
    {"artificial intelligence", "ai", "machine learning", "chatgpt", "gpt",
     "openai", "gemini", "claude", "llm", "large language model",
     "deep learning", "neural network", "automation", "algorithm"}

techKeywords ==
    {"technology", "software", "programming", "development", "coding",
     "data science", "analytics", "digital", "innovation", "tech"}

topicalKeywords == {"how to", "guide", "tutorial", "tips", "best practices", "explained"}

salesyWords ==
    {"buy now", "purchase", "sale", "discount", "limited time", "act now",
     "special offer", "deal", "price", "$", "order now", "subscribe now"}

neutralWords ==
    {"according to", "research shows", "studies indicate", "experts say",
     "analysis reveals", "data suggests", "findings show", "evidence"}

citationPatterns ==
    {"according to", "cited in", "reference", "source", "study", "research",
     "published in", "journal"}

statsPatterns == {"%", "percent", "statistics", "data shows", "survey", "study found"}

academicSignals ==
    {"university", "institute", "research center", "laboratory", "academic",
     "study", "paper", "journal"}

factCheckingSignals == {"fact", "verified", "evidence-based", "proven", "confirmed"}

transitionWords ==
    {"however", "therefore", "furthermore", "moreover", "consequently",
     "additionally", "in addition", "for example", "for instance", "in conclusion"}

passiveVoiceWords == {" is ", " are ", " was ", " were ", " be ", " been ", " by "}

recencySignals ==
    {"recent", "latest", "new", "update", "current", "today", "this month", "this year"}

comprehensiveSignals ==
    {"complete", "comprehensive", "in-depth", "detailed", "thorough",
     "ultimate guide", "everything you need to know"}

perspectiveSignals ==
    {"on the other hand", "alternatively", "however", "in contrast",
     "different perspective", "another view", "pros and cons",
     "advantages and disadvantages"}

exampleSignals == {"example", "case study", "instance", "for instance", "such as", "e.g."}

formalCitationPatterns ==
    {"et al", "cited in", "reference", "bibliography", "works cited", "references", "citation"}

\* every keyword the handler looks for in the body text
TextKeywords ==
    tableOfContentsKeywords \cup authorKeywords \cup bioKeywords
      \cup expertiseKeywords \cup aiKeywords \cup techKeywords
      \cup topicalKeywords \cup salesyWords \cup neutralWords
      \cup citationPatterns \cup statsPatterns \cup academicSignals
      \cup factCheckingSignals \cup transitionWords \cup passiveVoiceWords
      \cup recencySignals \cup comprehensiveSignals \cup perspectiveSignals
      \cup exampleSignals \cup formalCitationPatterns

(***************************************************************************)
(* Time.  The clock counts days since 1970-01-01; years have 365 days.     *)
(***************************************************************************)
DaysPerMonth == 30

ClockDays == {20000, 20400}

getFullYear(day) == 1970 + (day \div 365)

\* the calendar years a page text of the model can mention
YearStrings == {toString(getFullYear(day) - back) : day \in ClockDays, back \in {0, 1}}

(***************************************************************************)
(* Body text as a bag of pieces.                                           *)
(***************************************************************************)
MaxCount == 6

\* a sentence of thirteen short words without any keyword
PlainSentence == "we go on up to the top so we can see it all"

\* sentences of n seven-letter words without any keyword
DenseSentence(n) == repeat("subject ", n - 1) \o "subject"

QuoteMark == "\""

Pieces ==
    TextKeywords \cup YearStrings
      \cup {PlainSentence, QuoteMark} \cup {DenseSentence(n) : n \in {52, 66, 80}}

\* how a piece appears in the body text
rendered(piece) == " " \o piece \o "."

\* the needles that occur in a piece of text
PieceMatches ==
    [piece \in Pieces |->
       {kw \in TextKeywords \cup YearStrings : includes(rendered(piece), kw)}]

PieceStats ==
    [piece \in Pieces |->
        [words     |-> countWords(rendered(piece)),
         sentences |-> Len(sentencesOf(rendered(piece))),
         longWords |-> Len(longWordsOf(rendered(piece))),
         quotes    |-> Cardinality({i \in 1..Len(rendered(piece)) :
                                     charAt(rendered(piece), i) = "\""})]]

\* the numbers of copies a piece can have in a text of the model
PieceCounts(piece) ==
    IF piece = PlainSentence THEN {0, 1, 2, 30, 31, 62, 116}
    ELSE IF piece = QuoteMark THEN 0..MaxCount
    ELSE {0, 1}

EmptyText == [piece \in {} |-> 0]

setCopies(text, piece, n) ==
    IF n = 0 THEN [q \in DOMAIN text \ {piece} |-> text[q]]
    ELSE [q \in DOMAIN text \cup {piece} |-> IF q = piece THEN n ELSE text[q]]

\* the sum of f over S, value by value: few distinct values, many elements
RECURSIVE sumValues(_, _, _)
sumValues(vals, S, f) ==
    IF vals = {} THEN 0
    ELSE LET v == CHOOSE v \in vals : TRUE
         IN  v * Cardinality({e \in S : f[e] = v}) + sumValues(vals \ {v}, S, f)

sumOver(S, f) == sumValues({f[e] : e \in S}, S, f)

\* the needles for which text.includes(needle) holds
foundIn(text) == UNION {PieceMatches[piece] : piece \in DOMAIN text}

textWords(text) == sumOver(DOMAIN text, [p \in DOMAIN text |-> text[p] * PieceStats[p].words])

textSentences(text) ==
    sumOver(DOMAIN text, [p \in DOMAIN text |-> text[p] * PieceStats[p].sentences])

textLongWords(text) ==
    sumOver(DOMAIN text, [p \in DOMAIN text |-> text[p] * PieceStats[p].longWords])

textQuotes(text) == sumOver(DOMAIN text, [p \in DOMAIN text |-> text[p] * PieceStats[p].quotes])

(***************************************************************************)
(* JavaScript numbers that come out of a division.  A finite number is     *)
(* kept exactly, in thousandths: 1000 * value = whole + num / den with     *)
(* 0 <= num < den.  The thresholds they are compared with are given in     *)
(* thousandths too.  Floating-point rounding is far smaller than the       *)
(* distance of any value of the model to a threshold it does not hit       *)
(* exactly, so exact comparison decides as the handler does.               *)
(***************************************************************************)
NaN == [kind |-> "NaN", whole |-> 0, num |-> 0, den |-> 1]

Infinity == [kind |-> "Infinity", whole |-> 0, num |-> 0, den |-> 1]

\* the number a / b, for integers a and b >= 0
quotient(a, b) ==
    IF b = 0
    THEN (IF a = 0 THEN NaN ELSE IF a > 0 THEN Infinity
          ELSE [kind |-> "-Infinity", whole |-> 0, num |-> 0, den |-> 1])
    ELSE [kind |-> "finite", whole |-> (1000 * a) \div b, num |-> (1000 * a) % b, den |-> b]

number(n) == quotient(n, 1)

\* x >= m / 1000, x <= m / 1000, x > m / 1000, x < m / 1000
atLeast(x, m) ==
    \/ x.kind = "Infinity"
    \/ x.kind = "finite" /\ x.whole >= m

atMost(x, m) ==
    \/ x.kind = "-Infinity"
    \/ x.kind = "finite" /\ (x.whole < m \/ (x.whole = m /\ x.num = 0))

moreThan(x, m) ==
    \/ x.kind = "Infinity"
    \/ x.kind = "finite" /\ (x.whole > m \/ (x.whole = m /\ x.num > 0))

lessThan(x, m) ==
    \/ x.kind = "-Infinity"
    \/ x.kind = "finite" /\ x.whole < m

\* Math.max(0, x) and Math.min(100, x) for a finite x
mathMax0(x) == IF lessThan(x, 0) THEN number(0) ELSE x

mathMin100(x) == IF moreThan(x, 100000) THEN number(100) ELSE x

(***************************************************************************)
(* calculateReadability: 206.835 - 1.015 * (words / sentences)             *)
(*                               - 0.846 * (longWords / words * 100),      *)
(* clamped to [0, 100].  In thousandths the two subtracted terms are       *)
(* 1015 * words / sentences and 84600 * longWords / words; they are added  *)
(* as whole parts and remainders over the denominator sentences * words.   *)
(***************************************************************************)
fleschScore(words, sentences, longWords) ==
    LET den   == sentences * words
        rest  == ((1015 * words) % sentences) * words
                   + ((84600 * longWords) % words) * sentences
        taken == ((1015 * words) \div sentences)
                   + ((84600 * longWords) \div words) + (rest \div den)
        frac  == rest % den
    IN  IF frac = 0
        THEN [kind |-> "finite", whole |-> 206835 - taken, num |-> 0, den |-> den]
        ELSE [kind |-> "finite", whole |-> 206835 - taken - 1,
              num |-> den - frac, den |-> den]

readabilityOf(words, sentences, longWords) ==
    IF sentences = 0 \/ words = 0 THEN number(0)
    ELSE mathMin100(mathMax0(fleschScore(words, sentences, longWords)))

calculateReadability(text) ==
    readabilityOf(textWords(text), textSentences(text), textLongWords(text))

(***************************************************************************)
(* Requests.  The body of a request is what request.json() finds: no       *)
(* payload, a payload that is not JSON, the JSON value null, or a JSON     *)
(* object with or without a url member.                                    *)
(***************************************************************************)
PageUrl == "http://site.test/page"

NoUrl == [defined |-> FALSE, value |-> ""]

RequestBodies ==
    {[json |-> kind, url |-> NoUrl] : kind \in {"none", "invalid", "null", "object"}}
      \cup {[json |-> "object", url |-> [defined |-> TRUE, value |-> u]] :
               u \in {"", "not a url", "site.test/page", "http://", "http://bad host/",
                      "ftp://files.test/list", PageUrl}}

Letters ==
    {"a", "b", "c", "d", "e", "f", "g", "h", "i", "j", "k", "l", "m",
     "n", "o", "p", "q", "r", "s", "t", "u", "v", "w", "x", "y", "z"}

\* the scheme of a URL string: the characters before its first ":" when
\* they form a scheme, "" otherwise
schemeOf(s) ==
    LET colons == {i \in 1..Len(s) : charAt(s, i) = ":"}
        colon  == CHOOSE i \in colons : \A j \in colons : i <= j
    IN  IF /\ colons # {}
           /\ colon > 1
           /\ charAt(s, 1) \in Letters
           /\ \A i \in 2..(colon - 1) : charAt(s, i) \in
                 Letters \cup {Digits[k] : k \in 1..10} \cup {"+", "-", "."}
        THEN SubSeq(s, 1, colon - 1)
        ELSE ""

\* the host of an http(s) URL string: what follows the slashes after the
\* scheme, up to the next "/", "?" or "#"
hostOf(s) ==
    LET scheme == schemeOf(s)
        rest   == SubSeq(s, Len(scheme) + 2, Len(s))
        lead   == {i \in 1..Len(rest) : \A j \in 1..i : charAt(rest, j) = "/"}
        after  == SubSeq(rest, Cardinality(lead) + 1, Len(rest))
        stops  == {i \in 1..Len(after) : charAt(after, i) \in {"/", "?", "#"}}
        stop   == IF stops = {} THEN Len(after) + 1
                  ELSE CHOOSE i \in stops : \A j \in stops : i <= j
    IN  SubSeq(after, 1, stop - 1)

\* whether new URL(s) returns (TRUE) or throws (FALSE): without a base, a
\* URL needs a scheme, and an http(s) URL a non-empty host without blanks
canParseUrl(s) ==
    LET scheme == schemeOf(s)
    IN  /\ scheme # ""
        /\ scheme \in {"http", "https", "ftp"} =>
              /\ hostOf(s) # ""
              /\ \A i \in 1..Len(hostOf(s)) : charAt(hostOf(s), i) \notin Whitespace

(***************************************************************************)
(* Fetched data.  response.data is a string of markup, or another value    *)
(* when the HTTP client decoded the payload.  A markup string is described *)
(* by what the handler reads from it.                                      *)
(***************************************************************************)
Undefined == [kind |-> "undefined", day |-> 0]

NotADate == [kind |-> "text", day |-> 0]

dateAttr(d) == [kind |-> "date", day |-> d]

DateAttrs ==
    {Undefined, [kind |-> "empty", day |-> 0], NotADate} \cup
      \* publication days, as offsets back from the first clock value
      {dateAttr(20000 - back) :
         back \in {-5, 30, 31, 90, 91, 180, 181, 360, 361, 720, 721}}

\* an attribute value is truthy when it is a non-empty string
truthy(attr) == attr.kind \in {"text", "date"}

\* new Date(attr).getTime(), in days: NaN for a string that is not a date
getTime(attr) == IF attr.kind = "date" THEN number(attr.day) ELSE NaN

NoContent == [defined |-> FALSE, length |-> 0]

content(n) == [defined |-> TRUE, length |-> n]

Hrefs ==
    {"/about",
     PageUrl \o "#top",
     "http://site.test/other",
     "https://else.test/article",
     "https://else.test/share?u=" \o PageUrl}

NoLinks == [h \in Hrefs |-> 0]

EmptyData ==
    [isString |-> TRUE, length |-> 0,
     headings |-> 0, lists |-> 0, paragraphs |-> 0, authorElements |-> 0,
     title |-> 0, description |-> NoContent,
     publishedTime |-> Undefined, metaDate |-> Undefined, timeDatetime |-> Undefined,
     markers |-> {}, text |-> EmptyText, links |-> NoLinks]

\* a payload the HTTP client hands over decoded, not as a string
DecodedData == [EmptyData EXCEPT !.isString = FALSE]

PlainPage ==
    [EmptyData EXCEPT !.length = 1500, !.paragraphs = 2,
                      !.title = 10, !.text = [p \in {PlainSentence} |-> 2]]

\* a page of one long sentence of long words
DensePage ==
    [EmptyData EXCEPT !.length = 1500, !.headings = 1, !.paragraphs = 1,
                      !.text = [p \in {DenseSentence(66)} |-> 1]]

RichPage ==
    [isString |-> TRUE, length |-> 60000,
     headings |-> 5, lists |-> 3, paragraphs |-> 5, authorElements |-> 1,
     title |-> 40, description |-> content(120),
     publishedTime |-> dateAttr(19995), metaDate |-> dateAttr(19995),
     timeDatetime |-> dateAttr(19995),
     markers |-> schemaMarkers,
     text |-> [p \in TextKeywords \cup YearStrings \cup {PlainSentence, QuoteMark} |->
                 IF p = PlainSentence THEN 116 ELSE IF p = QuoteMark THEN 6 ELSE 1],
     links |-> [NoLinks EXCEPT !["https://else.test/article"] = 6]]

\* a page that sits next to the thresholds of the scoring tables
BorderPage ==
    [isString |-> TRUE, length |-> 2000,
     headings |-> 2, lists |-> 1, paragraphs |-> 4, authorElements |-> 0,
     title |-> 10, description |-> content(50),
     publishedTime |-> Undefined, metaDate |-> Undefined, timeDatetime |-> Undefined,
     markers |-> {},
     text |-> [p \in {"machine learning", "llm", "software", "coding", "purchase",
                      "discount", "evidence", "source", "journal", "%", "survey",
                      "verified", "therefore", "moreover", " was ", "latest",
                      "in contrast", "such as", "bibliography",
                      toString(getFullYear(20000) - 1), PlainSentence, QuoteMark} |->
                 IF p = PlainSentence THEN 30 ELSE IF p = QuoteMark THEN 5 ELSE 1],
     links |-> [NoLinks EXCEPT !["https://else.test/article"] = 4,
                               !["http://site.test/other"] = 1]]

Profiles == {EmptyData, PlainPage, DensePage, BorderPage, RichPage}

\* the pages that differ from d in one reading
editsOf(d) ==
    {[d EXCEPT !.length = v] : v \in {0, 1500, 2000, 2001, 60000}}
      \cup {[d EXCEPT !.headings = v] : v \in 0..MaxCount}
      \cup {[d EXCEPT !.lists = v] : v \in 0..MaxCount}
      \cup {[d EXCEPT !.paragraphs = v] : v \in 0..MaxCount}
      \cup {[d EXCEPT !.authorElements = v] : v \in {0, 1}}
      \cup {[d EXCEPT !.title = v] : v \in {0, 10, 11, 40}}
      \cup {[d EXCEPT !.description = v] : v \in ({NoContent} \cup {content(n) : n \in {0, 50, 51, 120}})}
      \cup {[d EXCEPT !.publishedTime = v] : v \in DateAttrs}
      \cup {[d EXCEPT !.metaDate = v] : v \in DateAttrs}
      \cup {[d EXCEPT !.timeDatetime = v] : v \in DateAttrs}
      \cup {[d EXCEPT !.markers = v] : v \in SUBSET schemaMarkers}
      \cup UNION {{[d EXCEPT !.text = setCopies(d.text, p, n)] : n \in PieceCounts(p)} :
                     p \in Pieces}
      \cup {[d EXCEPT !.links[h] = n] : h \in Hrefs, n \in 0..MaxCount}

\* what every markup string satisfies: an empty string has nothing in it,
\* every word takes a character, and text without a sentence is made of
\* blanks and sentence ends only
coherent(d) ==
    /\ d.length = 0 => d = EmptyData
    /\ d.length >= textWords(d.text)
    /\ textSentences(d.text) = 0 => d.text = EmptyText

\* the profiles and every page one reading away from a profile
FetchedData ==
    {d \in Profiles \cup UNION {editsOf(d) : d \in Profiles} : coherent(d)}
      \cup {DecodedData}

(***************************************************************************)
(* The analysis object and the ten criterion evaluators.  Every evaluator  *)
(* takes the analysis built so far and returns it with its own criterion   *)
(* filled in, as the statements of the handler do one after the other.     *)
(***************************************************************************)
pass(finding) == "<U+2713>" \o " " \o finding

fail(finding) == "<U+2717>" \o " " \o finding

researchInsights ==
    <<"AI systems like ChatGPT prefer to cite content with clear authorship and expertise signals",
      "Content with factual statements, statistics, and research citations is more likely to be referenced",
      "Well-structured content with clear headings and organization is prioritized by AI systems",
      "Recent and up-to-date information is more likely to be cited than outdated content",
      "Content from domains with established authority receives preferential treatment in AI citations",
      "Educational and informational content is cited more frequently than promotional material",
      "Content with neutral, objective tone is preferred over opinionated or biased writing">>

criterion(max) == [score |-> 0, max |-> max, details |-> <<>>]

initialAnalysis(url) ==
    [url |-> url,
     totalScore |-> 0,
     maxScore |-> 100,
     percentage |-> 0,
     criteria |->
        [structure         |-> criterion(10),
         author            |-> criterion(8),
         metadata          |-> criterion(8),
         keywords          |-> criterion(8),
         tone              |-> criterion(6),
         credibility       |-> criterion(15),
         readability       |-> criterion(15),
         freshness         |-> criterion(10),
         comprehensiveness |-> criterion(10),
         citations         |-> criterion(10)],
     recommendations |-> <<>>,
     researchInsights |-> researchInsights]

\* the order of Object.values(analysis.criteria)
CriteriaOrder ==
    <<"structure", "author", "metadata", "keywords", "tone", "credibility",
      "readability", "freshness", "comprehensiveness", "citations">>

Criteria == {CriteriaOrder[i] : i \in 1..Len(CriteriaOrder)}

\* criteria[c].score += points; criteria[c].details.push(finding)
award(analysis, c, points, finding) ==
    [analysis EXCEPT !.criteria[c].score = @ + points,
                     !.criteria[c].details = Append(@, finding)]

\* criteria[c].details.push(finding)
remark(analysis, c, finding) ==
    [analysis EXCEPT !.criteria[c].details = Append(@, finding)]

\* list.filter((keyword) => text.includes(keyword)).length
matchCount(list, data) == Cardinality(list \cap foundIn(data.text))

\* 1. Structure Analysis (10 points): five checks, one after the other
headingsCheck(analysis, data) ==
    IF data.headings >= 3
    THEN award(analysis, "structure", 3, pass("Good heading structure (3+ headings)"))
    ELSE remark(analysis, "structure", fail("Limited heading structure"))

\* the list check made to depend on the heading check before it
listsCheckAfterHeadings(analysis, data) ==
    IF data.lists >= 2 /\ analysis.criteria.structure.score > 0
    THEN award(analysis, "structure", 2, pass("Contains lists/bullet points"))
    ELSE remark(analysis, "structure", fail("No lists or bullet points found"))

listsCheck(analysis, data) ==
    IF data.lists >= 2
    THEN award(analysis, "structure", 2, pass("Contains lists/bullet points"))
    ELSE remark(analysis, "structure", fail("No lists or bullet points found"))

\* the paragraph check with its limit one too low
paragraphsCheckFour(analysis, data) ==
    IF data.paragraphs >= 4
    THEN award(analysis, "structure", 2, pass("Well-structured paragraphs"))
    ELSE remark(analysis, "structure", fail("Limited paragraph structure"))

paragraphsCheck(analysis, data) ==
    IF data.paragraphs >= 5
    THEN award(analysis, "structure", 2, pass("Well-structured paragraphs"))
    ELSE remark(analysis, "structure", fail("Limited paragraph structure"))

tableOfContentsCheck(analysis, data) ==
    LET tableOfContents == matchCount(tableOfContentsKeywords, data) > 0
    IN  IF tableOfContents
        THEN award(analysis, "structure", 2, pass("Table of contents present"))
        ELSE remark(analysis, "structure", fail("No table of contents"))

lengthCheck(analysis, data) ==
    IF data.length > 2000
    THEN award(analysis, "structure", 1, pass("Substantial content length"))
    ELSE remark(analysis, "structure", fail("Content appears too short"))

structureAnalysis(analysis, data) ==
    lengthCheck(
      tableOfContentsCheck(
        paragraphsCheck(
          listsCheck(
            headingsCheck(analysis, data), data), data), data), data)

\* 2. Author Analysis (8 points)
authorAnalysis(analysis, data) ==
    LET authorFound == data.authorElements > 0
        hasAuthorKeywords == matchCount(authorKeywords, data) > 0
        hasBio == matchCount(bioKeywords, data) > 0
        hasExpertise == matchCount(expertiseKeywords, data) > 0
        a1 == IF authorFound \/ hasAuthorKeywords
              THEN award(analysis, "author", 4, pass("Author information present"))
              ELSE remark(analysis, "author", fail("No clear author attribution"))
        a2 == IF hasBio
              THEN award(a1, "author", 2, pass("Author bio/credentials found"))
              ELSE remark(a1, "author", fail("No author bio or credentials"))
    IN  IF hasExpertise
        THEN award(a2, "author", 2, pass("Expertise indicators found"))
        ELSE remark(a2, "author", fail("No clear expertise indicators"))

\* a || b || c over the three places a publication date is read from
publishDate(data) ==
    IF truthy(data.publishedTime) THEN data.publishedTime
    ELSE IF truthy(data.metaDate) THEN data.metaDate
    ELSE data.timeDatetime

\* the length of $('meta[name="description"]').attr("content") || ""
descriptionLength(data) ==
    IF data.description.defined /\ data.description.length > 0
    THEN data.description.length ELSE 0

\* the description check with its limit one too low
descriptionCheckFifty(analysis, data) ==
    IF descriptionLength(data) > 0 /\ descriptionLength(data) > 49
    THEN award(analysis, "metadata", 3, pass("Good meta description"))
    ELSE remark(analysis, "metadata", fail("Missing or poor meta description"))

\* if (description && description.length > 50)
descriptionCheck(analysis, data) ==
    IF descriptionLength(data) > 0 /\ descriptionLength(data) > 50
    THEN award(analysis, "metadata", 3, pass("Good meta description"))
    ELSE remark(analysis, "metadata", fail("Missing or poor meta description"))

\* 3. Metadata Analysis (8 points)
metadataAnalysis(analysis, data) ==
    LET title == data.title
        hasSchema == data.markers # {}
        a1 == IF title > 0 /\ title > 10
              THEN award(analysis, "metadata", 2, pass("Descriptive title present"))
              ELSE remark(analysis, "metadata", fail("Missing or poor title"))
        a2 == descriptionCheck(a1, data)
        a3 == IF truthy(publishDate(data))
              THEN award(a2, "metadata", 2, pass("Publication date found"))
              ELSE remark(a2, "metadata", fail("No publication date"))
    IN  IF hasSchema
        THEN award(a3, "metadata", 1, pass("Structured data present"))
        ELSE remark(a3, "metadata", fail("No structured data"))

\* 4. Keywords Analysis (8 points)
keywordsAnalysis(analysis, data) ==
    LET aiKeywordCount == matchCount(aiKeywords, data)
        techKeywordCount == matchCount(techKeywords, data)
        hasTopicalKeywords == matchCount(topicalKeywords, data) > 0
        a1 == IF aiKeywordCount >= 3
              THEN award(analysis, "keywords", 4, pass("Rich AI-related keywords"))
              ELSE IF aiKeywordCount >= 1
              THEN award(analysis, "keywords", 2, pass("Some AI-related keywords"))
              ELSE remark(analysis, "keywords", fail("No AI-related keywords"))
        a2 == IF techKeywordCount >= 3
              THEN award(a1, "keywords", 2, pass("Technology keywords present"))
              ELSE remark(a1, "keywords", fail("Limited technology keywords"))
    IN  IF hasTopicalKeywords
        THEN award(a2, "keywords", 2, pass("Educational/informational keywords"))
        ELSE remark(a2, "keywords", fail("No educational keywords"))

\* 5. Tone Analysis (6 points)
toneAnalysis(analysis, data) ==
    LET salesyCount == matchCount(salesyWords, data)
        neutralCount == matchCount(neutralWords, data)
        a1 == IF salesyCount <= 2
              THEN award(analysis, "tone", 3, pass("Non-promotional tone"))
              ELSE remark(analysis, "tone", fail("Overly promotional language"))
    IN  IF neutralCount >= 2
        THEN award(a1, "tone", 3, pass("Objective, research-based tone"))
        ELSE remark(a1, "tone", fail("Limited objective language"))

\* 6. Credibility Analysis (15 points)
credibilityAnalysis(analysis, data) ==
    LET citationCount == matchCount(citationPatterns, data)
        statsCount == matchCount(statsPatterns, data)
        academicCount == matchCount(academicSignals, data)
        factCheckCount == matchCount(factCheckingSignals, data)
        a1 == IF citationCount >= 3
              THEN award(analysis, "credibility", 4, pass("Multiple references to external sources"))
              ELSE IF citationCount >= 1
              THEN award(analysis, "credibility", 2, pass("Some references to external sources"))
              ELSE remark(analysis, "credibility", fail("No references to external sources"))
        a2 == IF statsCount >= 3
              THEN award(a1, "credibility", 4, pass("Contains statistics and data"))
              ELSE IF statsCount >= 1
              THEN award(a1, "credibility", 2, pass("Some statistics or data"))
              ELSE remark(a1, "credibility", fail("No statistics or data"))
        a3 == IF academicCount >= 2
              THEN award(a2, "credibility", 4, pass("Strong academic/institutional signals"))
              ELSE IF academicCount >= 1
              THEN award(a2, "credibility", 2, pass("Some academic/institutional signals"))
              ELSE remark(a2, "credibility", fail("No academic/institutional signals"))
    IN  IF factCheckCount >= 2
        THEN award(a3, "credibility", 3, pass("Contains fact-checking signals"))
        ELSE remark(a3, "credibility", fail("No fact-checking signals"))

\* 7. Readability Analysis (15 points)
levelCheck(analysis, readabilityScore) ==
    IF atLeast(readabilityScore, 60000) /\ atMost(readabilityScore, 70000)
    THEN award(analysis, "readability", 6, pass("Optimal readability level (8th-9th grade)"))
    ELSE IF atLeast(readabilityScore, 50000) /\ lessThan(readabilityScore, 60000)
    THEN award(analysis, "readability", 4, pass("Good readability level (10th-12th grade)"))
    ELSE IF moreThan(readabilityScore, 70000)
    THEN award(analysis, "readability", 3, pass("Very simple readability (may lack depth)"))
    ELSE award(analysis, "readability", 1, fail("Complex readability (college level or higher)"))

\* the sentence-length check without the point for long sentences
sentenceLengthCheckNoFloor(analysis, avgSentenceLength) ==
    IF atLeast(avgSentenceLength, 10000) /\ atMost(avgSentenceLength, 20000)
    THEN award(analysis, "readability", 3, pass("Optimal average sentence length"))
    ELSE IF lessThan(avgSentenceLength, 10000)
    THEN award(analysis, "readability", 1, fail("Sentences may be too short"))
    ELSE remark(analysis, "readability", fail("Sentences may be too long"))

sentenceLengthCheck(analysis, avgSentenceLength) ==
    IF atLeast(avgSentenceLength, 10000) /\ atMost(avgSentenceLength, 20000)
    THEN award(analysis, "readability", 3, pass("Optimal average sentence length"))
    ELSE IF lessThan(avgSentenceLength, 10000)
    THEN award(analysis, "readability", 1, fail("Sentences may be too short"))
    ELSE award(analysis, "readability", 1, fail("Sentences may be too long"))

transitionCheck(analysis, transitionCount) ==
    IF transitionCount >= 3
    THEN award(analysis, "readability", 3, pass("Good use of transition words"))
    ELSE IF transitionCount >= 1
    THEN award(analysis, "readability", 1, pass("Some transition words present"))
    ELSE remark(analysis, "readability", fail("No transition words found"))

voiceCheck(analysis, activeVoiceRatio) ==
    IF moreThan(activeVoiceRatio, 700)
    THEN award(analysis, "readability", 3, pass("Primarily active voice"))
    ELSE IF moreThan(activeVoiceRatio, 500)
    THEN award(analysis, "readability", 2, pass("Mix of active and passive voice"))
    ELSE remark(analysis, "readability", fail("Excessive passive voice"))

\* 1 - passiveVoicePatterns / (wordCount / 10)
\* the ratio with a text without words taken as fully active
activeVoiceRatioOfGuarded(wordCount, passiveVoicePatterns) ==
    IF wordCount = 0 THEN number(1)
    ELSE quotient(wordCount - 10 * passiveVoicePatterns, wordCount)

activeVoiceRatioOf(wordCount, passiveVoicePatterns) ==
    quotient(wordCount - 10 * passiveVoicePatterns, wordCount)

readabilityAnalysis(analysis, data) ==
    voiceCheck(
      transitionCheck(
        sentenceLengthCheck(
          levelCheck(analysis, calculateReadability(data.text)),
          quotient(textWords(data.text), textSentences(data.text))),
        matchCount(transitionWords, data)),
      activeVoiceRatioOf(textWords(data.text), matchCount(passiveVoiceWords, data)))

\* a cap that is left out
mathMin10Uncapped(n) == n

\* Math.min(10, n)
mathMin10(n) == IF n < 10 THEN n ELSE 10

\* the steps by age with their limits excluded
publishedScoreStrict(attr, now) ==
    LET pubDate == getTime(attr)
        monthsAgo == IF pubDate.kind = "NaN" THEN NaN
                     ELSE quotient(now - attr.day, DaysPerMonth)
    IN  IF lessThan(monthsAgo, 1000) THEN 10
        ELSE IF lessThan(monthsAgo, 3000) THEN 8
        ELSE IF lessThan(monthsAgo, 6000) THEN 6
        ELSE IF lessThan(monthsAgo, 12000) THEN 4
        ELSE IF lessThan(monthsAgo, 24000) THEN 2
        ELSE 0

\* the score for a publication date read from the markup, by its age
publishedScore(attr, now) ==
    LET pubDate == getTime(attr)
        \* (now.getTime() - pubDate.getTime()) / (1000 * 60 * 60 * 24 * 30)
        monthsAgo == IF pubDate.kind = "NaN" THEN NaN
                     ELSE quotient(now - attr.day, DaysPerMonth)
    IN  IF atMost(monthsAgo, 1000) THEN 10
        ELSE IF atMost(monthsAgo, 3000) THEN 8
        ELSE IF atMost(monthsAgo, 6000) THEN 6
        ELSE IF atMost(monthsAgo, 12000) THEN 4
        ELSE IF atMost(monthsAgo, 24000) THEN 2
        ELSE 0

\* the year fallback with the previous year looked for first
yearScoreLastFirst(data, now) ==
    IF toString(getFullYear(now) - 1) \in foundIn(data.text) THEN 4
    ELSE IF toString(getFullYear(now)) \in foundIn(data.text) THEN 6
    ELSE 0

\* the score for a year found in the text when the markup gives no date
yearScore(data, now) ==
    IF toString(getFullYear(now)) \in foundIn(data.text) THEN 6
    ELSE IF toString(getFullYear(now) - 1) \in foundIn(data.text) THEN 4
    ELSE 0

\* 8. Freshness Analysis (10 points)
freshnessAnalysis(analysis, data, now) ==
    LET published == truthy(publishDate(data))
        currentYear == getFullYear(now)
        lastYear == currentYear - 1
        hasCurrentYear == toString(currentYear) \in foundIn(data.text)
        hasLastYear == toString(lastYear) \in foundIn(data.text)
        baseScore == IF published THEN publishedScore(publishDate(data), now)
                     ELSE yearScore(data, now)
        dateFound == published \/ hasCurrentYear \/ hasLastYear
        recencyCount == matchCount(recencySignals, data)
        dateScore == IF recencyCount >= 2 THEN mathMin10(baseScore + 2) ELSE baseScore
        a1 == IF recencyCount >= 2
              THEN remark(analysis, "freshness", pass("Contains recency signals"))
              ELSE analysis
        a2 == [a1 EXCEPT !.criteria.freshness.score = dateScore]
    IN  IF dateFound
        THEN IF dateScore >= 8
             THEN remark(a2, "freshness", pass("Very recent content (within 3 months)"))
             ELSE IF dateScore >= 4
             THEN remark(a2, "freshness", pass("Relatively recent content (within a year)"))
             ELSE remark(a2, "freshness", fail("Content may be outdated"))
        ELSE remark(a2, "freshness", fail("No clear publication date found"))

\* 9. Comprehensiveness Analysis (10 points)
comprehensivenessAnalysis(analysis, data) ==
    LET wordCount == textWords(data.text)
        comprehensiveCount == matchCount(comprehensiveSignals, data)
        perspectiveCount == matchCount(perspectiveSignals, data)
        exampleCount == matchCount(exampleSignals, data)
        a1 == IF wordCount >= 1500
              THEN award(analysis, "comprehensiveness", 4, pass("In-depth content (1500+ words)"))
              ELSE IF wordCount >= 800
              THEN award(analysis, "comprehensiveness", 3, pass("Substantial content (800+ words)"))
              ELSE IF wordCount >= 400
              THEN award(analysis, "comprehensiveness", 2, pass("Moderate content length (400+ words)"))
              ELSE remark(analysis, "comprehensiveness", fail("Content may be too brief"))
        a2 == IF comprehensiveCount >= 1
              THEN award(a1, "comprehensiveness", 2, pass("Claims to be comprehensive"))
              ELSE a1
        a3 == IF perspectiveCount >= 2
              THEN award(a2, "comprehensiveness", 2, pass("Presents multiple perspectives"))
              ELSE remark(a2, "comprehensiveness", fail("May present limited perspective"))
    IN  IF exampleCount >= 2
        THEN award(a3, "comprehensiveness", 2, pass("Includes examples or case studies"))
        ELSE remark(a3, "comprehensiveness", fail("Limited examples or illustrations"))

\* $("a[href^='http']").filter(... !href.includes(url)).length
externalLinkCount(data, url) ==
    LET counted == {h \in Hrefs : SubSeq(h, 1, 4) = "http" /\ ~includes(h, url)}
    IN  sumOver(counted, data.links)

\* the quote check on the number of pairs rounded to the nearest integer
quoteCheckRounded(analysis, quoteCount) ==
    IF atLeast(quoteCount, 2500)
    THEN award(analysis, "citations", 3, pass("Multiple quoted sources"))
    ELSE IF atLeast(quoteCount, 500)
    THEN award(analysis, "citations", 1, pass("Some quoted content"))
    ELSE remark(analysis, "citations", fail("No quoted sources"))

\* Check for quotes
quoteCheck(analysis, quoteCount) ==
    IF atLeast(quoteCount, 3000)
    THEN award(analysis, "citations", 3, pass("Multiple quoted sources"))
    ELSE IF atLeast(quoteCount, 1000)
    THEN award(analysis, "citations", 1, pass("Some quoted content"))
    ELSE remark(analysis, "citations", fail("No quoted sources"))

\* 10. Citations Analysis (10 points)
citationsAnalysis(analysis, data, url) ==
    LET externalLinks == externalLinkCount(data, url)
        formalCitationCount == matchCount(formalCitationPatterns, data)
        quoteCount == quotient(textQuotes(data.text), 2)
        a1 == IF externalLinks >= 5
              THEN award(analysis, "citations", 4, pass("Multiple external links (5+)"))
              ELSE IF externalLinks >= 2
              THEN award(analysis, "citations", 2, pass("Some external links"))
              ELSE remark(analysis, "citations", fail("Few or no external links"))
        a2 == IF formalCitationCount >= 2
              THEN award(a1, "citations", 3, pass("Formal citations present"))
              ELSE remark(a1, "citations", fail("No formal citations"))
    IN  quoteCheck(a2, quoteCount)

(***************************************************************************)
(* IEEE 754 double precision, for the percentage.  A positive double is    *)
(* mant * 2^exp with mant a sequence of 53 bits, most significant first    *)
(* and leading bit 1; results are rounded to nearest, ties to even.        *)
(***************************************************************************)
MantissaBits == 53

Zero == [mant |-> <<>>, exp |-> 0]

RECURSIVE bitsOf(_)
bitsOf(n) == IF n = 0 THEN <<>> ELSE Append(bitsOf(n \div 2), n % 2)

zeros(n) == [i \in 1..n |-> 0]

reverse(bits) == [i \in 1..Len(bits) |-> bits[Len(bits) + 1 - i]]

\* the double that equals the natural number n (n < 2^53)
fromInteger(n) ==
    IF n = 0 THEN Zero
    ELSE [mant |-> bitsOf(n) \o zeros(MantissaBits - Len(bitsOf(n))),
          exp  |-> Len(bitsOf(n)) - MantissaBits]

\* mant + 1, renormalised when the carry runs out of the top
roundUp(mant, exp) ==
    LET low == {i \in 1..Len(mant) : mant[i] = 0}
    IN  IF low = {}
        THEN [mant |-> <<1>> \o zeros(Len(mant) - 1), exp |-> exp + 1]
        ELSE LET last == CHOOSE i \in low : \A j \in low : j <= i
             IN  [mant |-> [i \in 1..Len(mant) |->
                              IF i < last THEN mant[i] ELSE IF i = last THEN 1 ELSE 0],
                  exp |-> exp]

RECURSIVE doubling(_, _)
doubling(a, b) == IF a >= b THEN 0 ELSE 1 + doubling(2 * a, b)

RECURSIVE power2(_)
power2(k) == IF k = 0 THEN 1 ELSE 2 * power2(k - 1)

\* long division: the next n bits of r / b (0 <= r < b, n >= 1), and the
\* rest; the bits are produced in two runs so that the recursion stays shallow
RECURSIVE divideBits(_, _, _)
divideBits(r, b, n) ==
    IF n = 1
    THEN (IF 2 * r >= b THEN [bits |-> <<1>>, rest |-> 2 * r - b]
                        ELSE [bits |-> <<0>>, rest |-> 2 * r])
    ELSE LET first  == divideBits(r, b, n \div 2)
             second == divideBits(first.rest, b, n - (n \div 2))
         IN  [bits |-> first.bits \o second.bits, rest |-> second.rest]

\* the double a / b for natural numbers a and b > 0
ieeeDivide(a, b) ==
    IF a = 0 THEN Zero
    ELSE LET up    == doubling(a, b)
             num   == a * power2(up)
             down  == doubling(b, (num \div 2) + 1)
             den   == b * power2(down)
             exact == divideBits(num - den, den, MantissaBits - 1)
             mant  == <<1>> \o exact.bits
             exp   == down - up - (MantissaBits - 1)
         IN  IF \/ 2 * exact.rest > den
                \/ 2 * exact.rest = den /\ mant[MantissaBits] = 1
             THEN roundUp(mant, exp)
             ELSE [mant |-> mant, exp |-> exp]

\* the bits of mant[lo..hi] * c + carry, least significant first, and the
\* carry out of them; worked from the low end (hi) to the high end (lo), in
\* two runs as divideBits
RECURSIVE timesBits(_, _, _, _, _)
timesBits(mant, c, lo, hi, carry) ==
    IF lo = hi
    THEN [bits |-> <<(mant[lo] * c + carry) % 2>>, carry |-> (mant[lo] * c + carry) \div 2]
    ELSE LET mid  == (lo + hi) \div 2
             low  == timesBits(mant, c, mid + 1, hi, carry)
             high == timesBits(mant, c, lo, mid, low.carry)
         IN  [bits |-> low.bits \o high.bits, carry |-> high.carry]

\* the double x * c for a double x and a natural number c > 0
ieeeTimes(x, c) ==
    IF x = Zero THEN Zero
    ELSE LET all     == timesBits(x.mant, c, 1, Len(x.mant), 0)
             product == bitsOf(all.carry) \o reverse(all.bits)
             extra   == Len(product) - MantissaBits
             kept    == SubSeq(product, 1, MantissaBits)
             dropped == SubSeq(product, MantissaBits + 1, Len(product))
             half    == extra > 0 /\ dropped[1] = 1
             above   == \E i \in 2..extra : dropped[i] = 1
         IN  IF half /\ (above \/ kept[MantissaBits] = 1)
             THEN roundUp(kept, x.exp + extra)
             ELSE [mant |-> kept, exp |-> x.exp + extra]

\* (totalScore / maxScore) * 100
percentageOf(totalScore, maxScore) == ieeeTimes(ieeeDivide(totalScore, maxScore), 100)

(***************************************************************************)
(* Aggregation and recommendations.                                        *)
(***************************************************************************)
\* a sum that starts one criterion late
RECURSIVE sumScoresLate(_, _)
sumScoresLate(criteria, i) ==
    IF i <= 1 THEN 0 ELSE sumScoresLate(criteria, i - 1) + criteria[CriteriaOrder[i]].score

\* Object.values(analysis.criteria).reduce((sum, criteria) => sum + criteria.score, 0)
RECURSIVE sumScores(_, _)
sumScores(criteria, i) ==
    IF i = 0 THEN 0 ELSE sumScores(criteria, i - 1) + criteria[CriteriaOrder[i]].score

aggregate(analysis) ==
    LET totalScore == sumScores(analysis.criteria, Len(CriteriaOrder))
    IN  [analysis EXCEPT !.totalScore = totalScore,
                         !.percentage = percentageOf(totalScore, analysis.maxScore)]

\* the thresholds with the one for citations compared by <= instead of <
thresholdInclusive(c) ==
    CASE c = "structure"         -> 7
      [] c = "author"            -> 5
      [] c = "metadata"          -> 5
      [] c = "keywords"          -> 5
      [] c = "tone"              -> 4
      [] c = "credibility"       -> 8
      [] c = "readability"       -> 8
      [] c = "freshness"         -> 5
      [] c = "comprehensiveness" -> 5
      [] c = "citations"         -> 6

\* the score below which a criterion gets its recommendation
threshold(c) ==
    CASE c = "structure"         -> 7
      [] c = "author"            -> 5
      [] c = "metadata"          -> 5
      [] c = "keywords"          -> 5
      [] c = "tone"              -> 4
      [] c = "credibility"       -> 8
      [] c = "readability"       -> 8
      [] c = "freshness"         -> 5
      [] c = "comprehensiveness" -> 5
      [] c = "citations"         -> 5

advice(c) ==
    CASE c = "structure" ->
           "Add more headings, lists, and a table of contents to improve content structure"
      [] c = "author" ->
           "Include clear author attribution, credentials, and expertise signals"
      [] c = "metadata" ->
           "Improve meta description, add publication date, and implement schema markup"
      [] c = "keywords" ->
           "Include more relevant AI and technology keywords"
      [] c = "tone" ->
           "Use more neutral, research-based language and reduce promotional content"
      [] c = "credibility" ->
           "Add references to research, statistics, and academic sources to boost credibility"
      [] c = "readability" ->
           "Improve readability by using shorter sentences, active voice, and transition words"
      [] c = "freshness" ->
           "Update content with current information and clearly display publication date"
      [] c = "comprehensiveness" ->
           "Expand content depth with more examples, multiple perspectives, and detailed coverage"
      [] c = "citations" ->
           "Add more external links, formal citations, and quoted sources"

\* the recommendations pushed onto the research insights
recommendIntoInsights(analysis) ==
    LET weak == SelectSeq(CriteriaOrder,
                          LAMBDA c : analysis.criteria[c].score < threshold(c))
    IN  [analysis EXCEPT !.researchInsights = @ \o [i \in 1..Len(weak) |-> advice(weak[i])]]

\* the ten tests with each advisory string put in front of the list
recommendInFront(analysis) ==
    LET weak == SelectSeq(CriteriaOrder,
                          LAMBDA c : analysis.criteria[c].score < threshold(c))
    IN  [analysis EXCEPT !.recommendations =
            [i \in 1..Len(weak) |-> advice(weak[Len(weak) + 1 - i])] \o @]

\* the ten tests `if (criteria.c.score < threshold) recommendations.push(...)`
recommend(analysis) ==
    LET weak == SelectSeq(CriteriaOrder,
                          LAMBDA c : analysis.criteria[c].score < threshold(c))
    IN  [analysis EXCEPT !.recommendations = @ \o [i \in 1..Len(weak) |-> advice(weak[i])]]

\* the handler from cheerio.load to the return of the analysis
score(url, data, now) ==
    LET a0  == initialAnalysis(url)
        a1  == structureAnalysis(a0, data)
        a2  == authorAnalysis(a1, data)
        a3  == metadataAnalysis(a2, data)
        a4  == keywordsAnalysis(a3, data)
        a5  == toneAnalysis(a4, data)
        a6  == credibilityAnalysis(a5, data)
        a7  == readabilityAnalysis(a6, data)
        a8  == freshnessAnalysis(a7, data, now)
        a9  == comprehensivenessAnalysis(a8, data)
        a10 == citationsAnalysis(a9, data, url)
        \* the analysis after each evaluator, in the order they run
        evaluated == <<a1, a2, a3, a4, a5, a6, a7, a8, a9, a10>>
    IN  recommend(aggregate(evaluated[Len(CriteriaOrder)]))

(***************************************************************************)
(* Responses.                                                              *)
(***************************************************************************)
NoResponse == [status |-> 0, body |-> [pending |-> TRUE]]

json(body, status) == [status |-> status, body |-> body]

failure == json([error |-> "Failed to analyze the webpage. Please check the URL and try again."], 500)

\* what the handler answers once the fetch has delivered data: calling
\* toLowerCase on data that is not a string throws into the catch block
analyze(url, data, now) ==
    IF data.isString THEN json(score(url, data, now), 200) ELSE failure

(***************************************************************************)
(* One request through the POST handler.  peer is a second call of the     *)
(* handler on the same server: a record of that call's own request,        *)
(* position, fetch and response.  The module has no state outside the      *)
(* handler, so the clock is all the two calls have in common.  page is the  *)
(* state of the page component in the browser: its four useState values    *)
(* and the analyzeUrl calls that are waiting at an await.                  *)
(***************************************************************************)
VARIABLES request, now, pc, fetches, outcome, fetched, response, responses, peer, page

vars == <<request, now, pc, fetches, outcome, fetched, response, responses, peer, page>>

\* a call of the handler that has read nothing yet
call(body) ==
    [request |-> body, pc |-> "json", fetches |-> 0, outcome |-> "none",
     fetched |-> <<>>, response |-> NoResponse, responses |-> 0]

Init ==
    /\ request \in RequestBodies
    /\ now = CHOOSE day \in ClockDays : \A other \in ClockDays : day <= other
    /\ pc = "json"
    /\ fetches = 0
    /\ outcome = "none"
    /\ fetched = <<>>
    /\ response = NoResponse
    /\ responses = 0
    /\ page = [url |-> "", loading |-> FALSE, result |-> <<>>, error |-> "", calls |-> <<>>]
    \* no second call is made
    /\ peer = [call([json |-> "none", url |-> NoUrl]) EXCEPT !.pc = "absent"]

respond(r) ==
    /\ response' = r
    /\ responses' = responses + 1
    /\ pc' = "done"

\* `!url`
missing(url) == ~url.defined \/ url.value = ""

\* request.json() rejects, or the payload null cannot be destructured
ReadFails ==
    /\ pc = "json"
    /\ request.json \in {"none", "invalid", "null"}
    /\ respond(failure)
    /\ UNCHANGED <<page, peer, request, now, fetches, outcome, fetched>>

UrlRequired ==
    /\ pc = "json"
    /\ request.json = "object"
    /\ missing(request.url)
    /\ respond(json([error |-> "URL is required"], 400))
    /\ UNCHANGED <<page, peer, request, now, fetches, outcome, fetched>>

UrlInvalid ==
    /\ pc = "json"
    /\ request.json = "object"
    /\ ~missing(request.url)
    /\ ~canParseUrl(request.url.value)
    /\ respond(json([error |-> "Invalid URL format"], 400))
    /\ UNCHANGED <<page, peer, request, now, fetches, outcome, fetched>>

\* axios.get(url, ...) is called and awaited
StartFetch ==
    /\ pc = "json"
    /\ request.json = "object"
    /\ ~missing(request.url)
    /\ canParseUrl(request.url.value)
    /\ pc' = "fetch"
    /\ fetches' = fetches + 1
    /\ outcome' = "pending"
    /\ UNCHANGED <<page, peer, request, now, fetched, response, responses>>

FetchErrors == {"timeout", "unreachable", "status"}

(***************************************************************************)
(* Variants of the rejected fetch, used to test the properties below.      *)
(***************************************************************************)
\* a rejected fetch answered with an all-zero analysis
FetchFailsZeroed ==
    /\ pc = "fetch"
    /\ \E why \in FetchErrors \cup {"protocol"} :
          /\ why = "protocol" <=> schemeOf(request.url.value) \notin {"http", "https"}
          /\ outcome' = why
    /\ respond(json(initialAnalysis(request.url.value), 200))
    /\ UNCHANGED <<page, peer, request, now, fetches, fetched>>

\* a rejected fetch that is tried once more before the handler gives up
FetchFailsRetrying ==
    /\ pc = "fetch"
    /\ \E why \in FetchErrors \cup {"protocol"} :
          /\ why = "protocol" <=> schemeOf(request.url.value) \notin {"http", "https"}
          /\ outcome' = why
    /\ IF fetches < 2
       THEN /\ fetches' = fetches + 1
            /\ UNCHANGED <<pc, response, responses>>
       ELSE /\ respond(failure)
            /\ UNCHANGED fetches
    /\ UNCHANGED <<page, peer, request, now, fetched>>

\* axios.get rejects
FetchFails ==
    /\ pc = "fetch"
    /\ \E why \in FetchErrors \cup {"protocol"} :
          /\ why = "protocol" <=> schemeOf(request.url.value) \notin {"http", "https"}
          /\ outcome' = why
    /\ respond(failure)
    /\ UNCHANGED <<page, peer, request, now, fetches, fetched>>

\* axios.get resolves and the rest of the handler runs
FetchSucceeds ==
    /\ pc = "fetch"
    /\ schemeOf(request.url.value) \in {"http", "https"}
    /\ \E data \in FetchedData :
          /\ fetched' = <<data>>
          /\ respond(analyze(request.url.value, data, now))
    /\ outcome' = "ok"
    /\ UNCHANGED <<page, peer, request, now, fetches>>

\* time passes while the request is pending
Tick ==
    /\ pc # "done"
    /\ \E later \in ClockDays : later > now /\ now' = later
    /\ UNCHANGED <<page, peer, request, pc, fetches, outcome, fetched, response, responses>>

Next ==
    \/ ReadFails
    \/ UrlRequired
    \/ UrlInvalid
    \/ StartFetch
    \/ FetchFails
    \/ FetchSucceeds
    \/ Tick

Spec == Init /\ [][Next]_vars

\* every await of the handler settles: the body is read, and the fetch
\* resolves, rejects or runs into its timeout
FairSpec ==
    /\ Spec
    /\ WF_vars(ReadFails \/ UrlRequired \/ UrlInvalid \/ StartFetch)
    /\ WF_vars(FetchFails \/ FetchSucceeds)

(***************************************************************************)
(* Two calls of the handler at once.  Each await of a call (request.json,  *)
(* axios.get) is a point where the other call may run; between two awaits  *)
(* a call runs without interruption.  The second call takes the same       *)
(* steps as the first, over its own record.                                *)
(***************************************************************************)
\* the pages the two fetches may deliver
PairData == {PlainPage, RichPage, DecodedData}

peerRespond(r) ==
    [peer EXCEPT !.response = r, !.responses = @ + 1, !.pc = "done"]

PeerReadFails ==
    /\ peer.pc = "json"
    /\ peer.request.json \in {"none", "invalid", "null"}
    /\ peer' = peerRespond(failure)
    /\ UNCHANGED <<page, request, now, pc, fetches, outcome, fetched, response, responses>>

PeerUrlRequired ==
    /\ peer.pc = "json"
    /\ peer.request.json = "object"
    /\ missing(peer.request.url)
    /\ peer' = peerRespond(json([error |-> "URL is required"], 400))
    /\ UNCHANGED <<page, request, now, pc, fetches, outcome, fetched, response, responses>>

PeerUrlInvalid ==
    /\ peer.pc = "json"
    /\ peer.request.json = "object"
    /\ ~missing(peer.request.url)
    /\ ~canParseUrl(peer.request.url.value)
    /\ peer' = peerRespond(json([error |-> "Invalid URL format"], 400))
    /\ UNCHANGED <<page, request, now, pc, fetches, outcome, fetched, response, responses>>

PeerStartFetch ==
    /\ peer.pc = "json"
    /\ peer.request.json = "object"
    /\ ~missing(peer.request.url)
    /\ canParseUrl(peer.request.url.value)
    /\ peer' = [peer EXCEPT !.pc = "fetch", !.fetches = @ + 1, !.outcome = "pending"]
    /\ UNCHANGED <<page, request, now, pc, fetches, outcome, fetched, response, responses>>

PeerFetchFails ==
    /\ peer.pc = "fetch"
    /\ \E why \in FetchErrors \cup {"protocol"} :
          /\ why = "protocol" <=> schemeOf(peer.request.url.value) \notin {"http", "https"}
          /\ peer' = [peerRespond(failure) EXCEPT !.outcome = why]
    /\ UNCHANGED <<page, request, now, pc, fetches, outcome, fetched, response, responses>>

\* the calls keeping their analysis in one object of the module, which the
\* first call to finish has filled in
settleShared(who, data, answer) ==
    IF who = "first"
    THEN /\ pc = "fetch"
         /\ schemeOf(request.url.value) \in {"http", "https"}
         /\ fetched' = <<data>>
         /\ respond(IF peer.pc = "done" /\ peer.response.status = 200
                    THEN peer.response ELSE answer)
         /\ outcome' = "ok"
         /\ UNCHANGED <<page, peer, request, now, fetches>>
    ELSE /\ peer.pc = "fetch"
         /\ schemeOf(peer.request.url.value) \in {"http", "https"}
         /\ peer' = [peerRespond(IF pc = "done" /\ response.status = 200
                                 THEN response ELSE answer)
                       EXCEPT !.fetched = <<data>>, !.outcome = "ok"]
         /\ UNCHANGED <<page, request, now, pc, fetches, outcome, fetched, response, responses>>

\* the rest of the handler, run by the call whose fetch has resolved with
\* data, up to its return of answer
settle(who, data, answer) ==
    IF who = "first"
    THEN /\ pc = "fetch"
         /\ schemeOf(request.url.value) \in {"http", "https"}
         /\ fetched' = <<data>>
         /\ respond(answer)
         /\ outcome' = "ok"
         /\ UNCHANGED <<page, peer, request, now, fetches>>
    ELSE /\ peer.pc = "fetch"
         /\ schemeOf(peer.request.url.value) \in {"http", "https"}
         /\ peer' = [peerRespond(answer) EXCEPT !.fetched = <<data>>, !.outcome = "ok"]
         /\ UNCHANGED <<page, request, now, pc, fetches, outcome, fetched, response, responses>>

\* axios.get of one of the two calls resolves
PairFetchSucceeds ==
    /\ "fetch" \in {pc, peer.pc}
    /\ \E who \in {"first", "second"}, data \in PairData :
          settle(who, data,
                 analyze(IF who = "first" THEN request.url.value
                         ELSE peer.request.url.value,
                         data, now))

PairInit ==
    /\ request \in RequestBodies
    /\ now = CHOOSE day \in ClockDays : \A other \in ClockDays : day <= other
    /\ pc = "json"
    /\ fetches = 0
    /\ outcome = "none"
    /\ fetched = <<>>
    /\ response = NoResponse
    /\ responses = 0
    /\ page = [url |-> "", loading |-> FALSE, result |-> <<>>, error |-> "", calls |-> <<>>]
    /\ peer \in {call(body) :
                   body \in {[json |-> "none", url |-> NoUrl], [json |-> "object", url |-> NoUrl]}
                           \cup {[json |-> "object", url |-> [defined |-> TRUE, value |-> u]] :
                                    u \in {"not a url", PageUrl}}}

PairNext ==
    \/ ReadFails
    \/ UrlRequired
    \/ UrlInvalid
    \/ StartFetch
    \/ FetchFails
    \/ Tick
    \/ PeerReadFails
    \/ PeerUrlRequired
    \/ PeerUrlInvalid
    \/ PeerStartFetch
    \/ PeerFetchFails
    \/ PairFetchSucceeds

PairSpec == PairInit /\ [][PairNext]_vars

(***************************************************************************)
(* The page component.  result is <<>> for null and <<data>> once set.     *)
(* An analyzeUrl call runs from one await to the next without              *)
(* interruption; the Enter key starts a call whether or not an earlier one *)
(* is still waiting.                                                       *)
(***************************************************************************)
MaxCalls == 2

\* the list without its i-th element
dropAt(list, i) == SubSeq(list, 1, i - 1) \o SubSeq(list, i + 1, Len(list))

\* onChange={(e) => setUrl(e.target.value)}
setUrl ==
    /\ \E typed \in {"", "not a url", PageUrl} :
          /\ typed # page.url
          /\ page' = [page EXCEPT !.url = typed]
    /\ UNCHANGED <<request, now, pc, fetches, outcome, fetched, response, responses, peer>>

\* analyzeUrl up to its first await
analyzeUrl ==
    /\ Len(page.calls) < MaxCalls
    /\ page' = IF page.url = "" THEN page
               ELSE [page EXCEPT !.loading = TRUE, !.error = "", !.result = <<>>,
                                 !.calls = Append(@, [at |-> "fetch", url |-> page.url,
                                                      data |-> <<>>])]
    /\ UNCHANGED <<request, now, pc, fetches, outcome, fetched, response, responses, peer>>

\* the catch block and the finally block of the i-th waiting call
caught(i) ==
    [page EXCEPT !.error = "Failed to analyze the URL. Please check the URL and try again.",
                 !.loading = FALSE,
                 !.calls = dropAt(@, i)]

\* fetch("/api/analyze", ...) rejects
fetchRejects ==
    /\ \E i \in 1..Len(page.calls) :
          /\ page.calls[i].at = "fetch"
          /\ page' = caught(i)
    /\ UNCHANGED <<request, now, pc, fetches, outcome, fetched, response, responses, peer>>

\* the i-th waiting call goes on with the response of its fetch
received(i, answer) ==
    /\ page.calls[i].at = "fetch"
    /\ page' = IF answer.status = 200
               THEN [page EXCEPT !.calls[i].at = "json", !.calls[i].data = <<answer.body>>]
               ELSE caught(i)

\* fetch resolves with what the handler answers for the url of the call
fetchResolves ==
    /\ \E i \in 1..Len(page.calls), data \in PairData :
          received(i, IF canParseUrl(page.calls[i].url)
                      THEN analyze(page.calls[i].url, data, now)
                      ELSE json([error |-> "Invalid URL format"], 400))
    /\ UNCHANGED <<request, now, pc, fetches, outcome, fetched, response, responses, peer>>

\* response.json() resolves: setResult(data), then the finally block
jsonResolves ==
    /\ \E i \in 1..Len(page.calls) :
          /\ page.calls[i].at = "json"
          /\ page' = [page EXCEPT !.result = page.calls[i].data,
                                  !.loading = FALSE,
                                  !.calls = dropAt(@, i)]
    /\ UNCHANGED <<request, now, pc, fetches, outcome, fetched, response, responses, peer>>

\* the icon in front of a finding
detailIcon(detail) ==
    IF SubSeq(detail, 1, Len("<U+00E2><U+0153><U+201C>")) = "<U+00E2><U+0153><U+201C>"
    THEN "CheckCircle"
    ELSE "XCircle"

PageNext ==
    \/ setUrl
    \/ analyzeUrl
    \/ fetchRejects
    \/ fetchResolves
    \/ jsonResolves

PageInit ==
    /\ request = [json |-> "none", url |-> NoUrl]
    /\ now = CHOOSE day \in ClockDays : \A other \in ClockDays : day <= other
    /\ pc = "json"
    /\ fetches = 0
    /\ outcome = "none"
    /\ fetched = <<>>
    /\ response = NoResponse
    /\ responses = 0
    /\ peer = [call([json |-> "none", url |-> NoUrl]) EXCEPT !.pc = "absent"]
    /\ page = [url |-> "", loading |-> FALSE, result |-> <<>>, error |-> "", calls |-> <<>>]

PageSpec == PageInit /\ [][PageNext]_vars

(***************************************************************************)
(* Properties.                                                             *)
(***************************************************************************)

\* C1: in every analysis that is returned, each of the ten criteria has
\* 0 <= score <= max, and max is the constant the criterion started with
\* (10, 8, 8, 8, 6, 15, 15, 10, 10, 10).
C1_ScoreWithinMax ==
    LET fixedMax == [structure |-> 10, author |-> 8, metadata |-> 8, keywords |-> 8,
                     tone |-> 6, credibility |-> 15, readability |-> 15,
                     freshness |-> 10, comprehensiveness |-> 10, citations |-> 10]
    IN  pc = "done" /\ response.status = 200 =>
          \A c \in Criteria :
             /\ response.body.criteria[c].max = fixedMax[c]
             /\ response.body.criteria[c].score >= 0
             /\ response.body.criteria[c].score <= response.body.criteria[c].max

\* a returned analysis with criteria at their maxima, freshness capped
C1_Witness ==
    /\ pc = "done" /\ response.status = 200
    /\ response.body.criteria.structure.score = 10
    /\ response.body.criteria.credibility.score = 15
    /\ response.body.criteria.freshness.score = 10
    /\ "recent" \in foundIn(fetched[1].text) /\ "latest" \in foundIn(fetched[1].text)

\* C2: in every analysis that is returned, totalScore is the sum of the ten
\* criterion scores and lies in [0, 100].
C2_TotalIsSum ==
    pc = "done" /\ response.status = 200 =>
       LET of == response.body.criteria
       IN  /\ response.body.totalScore =
                of.structure.score + of.author.score + of.metadata.score
                  + of.keywords.score + of.tone.score + of.credibility.score
                  + of.readability.score + of.freshness.score
                  + of.comprehensiveness.score + of.citations.score
           /\ response.body.totalScore >= 0
           /\ response.body.totalScore <= 100

\* a returned analysis with a high total in which the first criterion counts
C2_Witness ==
    /\ pc = "done" /\ response.status = 200
    /\ response.body.criteria.structure.score > 0
    /\ response.body.totalScore > 80

\* C3 as claimed: in every analysis that is returned, maxScore is 100, it is
\* the sum of the ten maxima, and percentage equals totalScore exactly.
C3_PercentageIsTotal ==
    pc = "done" /\ response.status = 200 =>
       LET of == response.body.criteria
       IN  /\ response.body.maxScore = 100
           /\ response.body.maxScore =
                of.structure.max + of.author.max + of.metadata.max + of.keywords.max
                  + of.tone.max + of.credibility.max + of.readability.max
                  + of.freshness.max + of.comprehensiveness.max + of.citations.max
           /\ response.body.percentage = fromInteger(response.body.totalScore)

\* C4 as claimed: a page with no heading, no list, at most 5 paragraphs, no
\* "contents" in its text and at most 2000 characters of markup scores 0
\* on structure.
C4_FiveParagraphsScoreZero ==
    /\ pc = "done" /\ response.status = 200
    /\ fetched[1].headings = 0 /\ fetched[1].lists = 0
    /\ fetched[1].paragraphs <= 5
    /\ "contents" \notin foundIn(fetched[1].text)
    /\ fetched[1].length <= 2000
    => response.body.criteria.structure.score = 0

\* C4 as amended: a page with no heading, no list, at most 4 paragraphs, no
\* "contents" in its text and at most 2000 characters of markup scores 0
\* on structure.
C4_FourParagraphsScoreZero ==
    /\ pc = "done" /\ response.status = 200
    /\ fetched[1].headings = 0 /\ fetched[1].lists = 0
    /\ fetched[1].paragraphs <= 4
    /\ "contents" \notin foundIn(fetched[1].text)
    /\ fetched[1].length <= 2000
    => response.body.criteria.structure.score = 0

\* a page with exactly 4 paragraphs and none of the other structure signals
C4_Witness ==
    /\ pc = "done" /\ response.status = 200
    /\ fetched[1].headings = 0 /\ fetched[1].lists = 0
    /\ fetched[1].paragraphs = 4
    /\ "contents" \notin foundIn(fetched[1].text)
    /\ fetched[1].length > 0 /\ fetched[1].length <= 2000
    /\ response.body.criteria.structure.score = 0

\* C5: in every analysis that is returned, the advisory string of a
\* criterion is in the recommendations if and only if the score of the
\* criterion is below its threshold (structure 7, author 5, metadata 5,
\* keywords 5, tone 4, credibility 8, readability 8, freshness 5,
\* comprehensiveness 5, citations 5).
C5_AdviceIffBelowThreshold ==
    LET below == [structure |-> 7, author |-> 5, metadata |-> 5, keywords |-> 5,
                  tone |-> 4, credibility |-> 8, readability |-> 8,
                  freshness |-> 5, comprehensiveness |-> 5, citations |-> 5]
    IN  pc = "done" /\ response.status = 200 =>
          \A c \in Criteria :
             (\E i \in 1..Len(response.body.recommendations) :
                 response.body.recommendations[i] = advice(c))
               <=> response.body.criteria[c].score < below[c]

\* a returned analysis with one criterion exactly on its threshold and
\* without its advice, and another one below its threshold with its advice
C5_Witness ==
    /\ pc = "done" /\ response.status = 200
    /\ response.body.criteria.citations.score = 5
    /\ \A i \in 1..Len(response.body.recommendations) :
          response.body.recommendations[i] # advice("citations")
    /\ response.body.criteria.structure.score < 7
    /\ response.body.recommendations[1] = advice("structure")

\* C6 as claimed: a request whose url is missing (no payload, a payload that
\* is not JSON, the payload null, an object without url), empty or not a
\* well-formed absolute URL never starts a fetch and is answered with
\* status 400 and an error body.
C6_BadUrlIs400 ==
    LET notUrls == {"", "not a url", "site.test/page", "http://", "http://bad host/"}
    IN  (request.json # "object" \/ ~request.url.defined \/ request.url.value \in notUrls)
        => /\ fetches = 0
           /\ fetched = <<>>
           /\ pc = "done" => /\ response.status = 400
                             /\ DOMAIN response.body = {"error"}

\* C7 as claimed: a request without a payload is answered with status 400,
\* not 500, and no fetch is started for it.
C7_EmptyBodyIs400 ==
    request.json = "none" =>
       /\ fetches = 0
       /\ pc = "done" => response.status = 400

\* C8: when the fetch of a valid URL times out, does not reach the host or
\* gets a non-success status, the answer has status 500 and its body holds
\* an error string and nothing else.
C8_FetchFailureIs500 ==
    outcome \in {"timeout", "unreachable", "status"} =>
       /\ canParseUrl(request.url.value)
       /\ pc = "done"
       /\ response.status = 500
       /\ DOMAIN response.body = {"error"}
       /\ fetched = <<>>

\* a request whose fetch ran into the timeout
C8_Witness ==
    /\ outcome = "timeout"
    /\ pc = "done"
    /\ response.status = 500

\* C9 as claimed: whenever the fetch succeeds the request ends with a 200
\* analysis, whatever the data is.
C9_FetchedIsScored ==
    outcome = "ok" =>
       /\ response.status = 200
       /\ "totalScore" \in DOMAIN response.body

\* C10: a request calls the fetch at most once, also after the fetch has
\* failed, and ends with exactly one response, of status 200, 400 or 500.
C10_OneFetchOneResponse ==
    /\ [](/\ fetches <= 1
          /\ responses <= 1
          /\ (pc = "done") <=> (responses = 1)
          /\ pc = "done" => response.status \in {200, 400, 500})
    /\ [][(outcome \in FetchErrors) => (fetches' = fetches /\ responses' = responses)]_vars
    /\ <>(pc = "done")

\* a request answered once after its only fetch failed
C10_Witness ==
    /\ pc = "done"
    /\ outcome = "unreachable"
    /\ fetches = 1
    /\ responses = 1

\* C11 as claimed: the ten scores of a returned analysis are those of the
\* same URL and the same fetched document analysed at any other moment.
C11_ScoresIgnoreClock ==
    (pc = "done" /\ response.status = 200) =>
       \A day \in ClockDays :
          LET other == score(request.url.value, fetched[1], day)
          IN  \A c \in Criteria :
                 response.body.criteria[c].score = other.criteria[c].score

\* C13: in every returned analysis the metadata criterion holds the +3 of the
\* description bonus, with its finding, exactly when the meta description is
\* longer than 50 characters: it does at 51 characters and does not at 50.
C13_DescriptionBonusAbove50 ==
    (pc = "done" /\ response.status = 200) =>
       LET data     == fetched[1]
           metadata == response.body.criteria.metadata
           long     == data.description.defined /\ data.description.length > 50
           others   == (IF data.title > 10 THEN 2 ELSE 0)
                         + (IF truthy(publishDate(data)) THEN 2 ELSE 0)
                         + (IF data.markers # {} THEN 1 ELSE 0)
       IN  /\ metadata.score = others + (IF long THEN 3 ELSE 0)
           /\ metadata.details[2] = (IF long THEN pass("Good meta description")
                                     ELSE fail("Missing or poor meta description"))
           /\ data.description = content(51) => long
           /\ data.description = content(50) => ~long

\* a page with a description of 51 characters that got the bonus, nothing else
C13_Witness ==
    /\ pc = "done" /\ response.status = 200
    /\ fetched[1].description = content(51)
    /\ response.body.criteria.metadata.score = 3
    /\ response.body.criteria.metadata.details[2] = pass("Good meta description")

\* C14: a document without a publication date in its markup whose text holds
\* the current calendar year gets the freshness base 6, whether or not the
\* previous year occurs too: its freshness score is 6, or 8 with the bonus
\* for two recency signals.
C14_CurrentYearScoresSix ==
    (pc = "done" /\ response.status = 200) =>
       LET data == fetched[1]
       IN  (/\ data.publishedTime = Undefined
            /\ data.metaDate = Undefined
            /\ data.timeDatetime = Undefined
            /\ toString(getFullYear(now)) \in foundIn(data.text))
           => response.body.criteria.freshness.score =
                 (IF matchCount(recencySignals, data) >= 2 THEN 6 + 2 ELSE 6)

\* such a document that mentions the previous year as well, without bonus
C14_Witness ==
    /\ pc = "done" /\ response.status = 200
    /\ fetched[1].publishedTime = Undefined
    /\ fetched[1].metaDate = Undefined
    /\ fetched[1].timeDatetime = Undefined
    /\ {toString(getFullYear(now)), toString(getFullYear(now) - 1)} \subseteq foundIn(fetched[1].text)
    /\ matchCount(recencySignals, fetched[1]) < 2
    /\ response.body.criteria.freshness.score = 6

\* C15 as claimed: a document with 6 links to hosts other than the host of
\* the analysed page, no formal-citation phrase and no quote character has
\* the citations score 4, whatever else the hrefs of the links contain.
C15_SixCrossHostLinksScoreFour ==
    (pc = "done" /\ response.status = 200) =>
       LET data      == fetched[1]
           crossHost == {h \in Hrefs : /\ schemeOf(h) \in {"http", "https"}
                                       /\ hostOf(h) # hostOf(request.url.value)}
       IN  (/\ sumOver(crossHost, data.links) = 6
            /\ matchCount(formalCitationPatterns, data) = 0
            /\ textQuotes(data.text) = 0)
           => response.body.criteria.citations.score = 4

\* C16: every returned analysis carries the same research insights, the
\* seven strings the analysis starts with, in their order; no evaluator, nor
\* aggregation, nor the recommendations change them.
C16_InsightsAreFixed ==
    (pc = "done" /\ response.status = 200) =>
       /\ response.body.researchInsights = researchInsights
       /\ Len(response.body.researchInsights) = 7
       /\ response.body.researchInsights = initialAnalysis(request.url.value).researchInsights

\* a returned analysis with findings, a total and recommendations, and the
\* insights it started with
C16_Witness ==
    /\ pc = "done" /\ response.status = 200
    /\ response.body.totalScore > 0
    /\ Len(response.body.recommendations) > 0
    /\ response.body.researchInsights = researchInsights

\* C17 as claimed: links to the host of the analysed page never count for
\* the link bonus, so the citations criterion of a returned analysis is what
\* it would be for the same document without its same-host links.
C17_SameHostLinksNeverCount ==
    (pc = "done" /\ response.status = 200) =>
       LET data     == fetched[1]
           url      == request.url.value
           sameHost == {h \in Hrefs : /\ schemeOf(h) \in {"http", "https"}
                                      /\ hostOf(h) = hostOf(url)}
           without  == [data EXCEPT !.links =
                          [h \in Hrefs |-> IF h \in sameHost THEN 0 ELSE data.links[h]]]
       IN  response.body.criteria.citations =
              citationsAnalysis(initialAnalysis(url), without, url).criteria.citations

\* C18: the freshness score of every returned analysis is min(10, base + 2)
\* with two or more recency signals and base otherwise.  With a publication
\* date in the markup, base steps down with its age in months of 30 days
\* (<= 1: 10, <= 3: 8, <= 6: 6, <= 12: 4, <= 24: 2, older: 0) and is 0 for a
\* date string that is not a date; the years in the text are then not
\* looked at.  Without one, base is 6 for the current year in the text,
\* else 4 for the previous year, else 0.
C18_FreshnessFormula ==
    (pc = "done" /\ response.status = 200) =>
       LET data    == fetched[1]
           dates   == {a \in {data.publishedTime, data.metaDate, data.timeDatetime} :
                          a.kind \in {"text", "date"}}
           date    == IF data.publishedTime \in dates THEN data.publishedTime
                      ELSE IF data.metaDate \in dates THEN data.metaDate
                      ELSE data.timeDatetime
           age     == now - date.day
           base    == IF dates # {}
                      THEN (IF date.kind # "date" THEN 0
                            ELSE IF age <= 1 * DaysPerMonth THEN 10
                            ELSE IF age <= 3 * DaysPerMonth THEN 8
                            ELSE IF age <= 6 * DaysPerMonth THEN 6
                            ELSE IF age <= 12 * DaysPerMonth THEN 4
                            ELSE IF age <= 24 * DaysPerMonth THEN 2
                            ELSE 0)
                      ELSE IF toString(getFullYear(now)) \in foundIn(data.text) THEN 6
                      ELSE IF toString(getFullYear(now) - 1) \in foundIn(data.text) THEN 4
                      ELSE 0
           signals == Cardinality({w \in recencySignals : w \in foundIn(data.text)})
       IN  response.body.criteria.freshness.score =
              (IF signals < 2 THEN base ELSE IF base + 2 > 10 THEN 10 ELSE base + 2)

\* a document whose publication date is not a date and whose text holds the
\* current year and recency signals: base 0, score 2
C18_Witness ==
    /\ pc = "done" /\ response.status = 200
    /\ publishDate(fetched[1]) = NotADate
    /\ toString(getFullYear(now)) \in foundIn(fetched[1].text)
    /\ matchCount(recencySignals, fetched[1]) >= 2
    /\ response.body.criteria.freshness.score = 2

\* C19: the structure score of every returned analysis is the sum of five
\* independent awards: 3 for three or more headings, 2 for two or more
\* lists, 2 for five or more paragraphs, 2 for "table of contents" or
\* "contents" in the text, 1 for markup longer than 2000 characters.
C19_StructureIsSumOfChecks ==
    (pc = "done" /\ response.status = 200) =>
       LET data == fetched[1]
           toc  == \E kw \in {"table of contents", "contents"} : kw \in foundIn(data.text)
       IN  response.body.criteria.structure.score =
              (IF data.headings >= 3 THEN 3 ELSE 0)
                + (IF data.lists >= 2 THEN 2 ELSE 0)
                + (IF data.paragraphs >= 5 THEN 2 ELSE 0)
                + (IF toc THEN 2 ELSE 0)
                + (IF data.length > 2000 THEN 1 ELSE 0)

\* a document with lists as its only structure: score 2
C19_Witness ==
    /\ pc = "done" /\ response.status = 200
    /\ fetched[1].headings < 3 /\ fetched[1].lists >= 2
    /\ fetched[1].paragraphs < 5 /\ fetched[1].length <= 2000
    /\ response.body.criteria.structure.score = 2
    /\ Len(response.body.criteria.structure.details) = 5

\* C20: the readability score of every returned analysis is the sum of four
\* awards, one branch of each: 6, 4, 3 or 1 for the readability estimate
\* (in [60,70], in [50,60), above 70, else), 3 or 1 for the average sentence
\* length (in [10,20], else), 3, 1 or 0 for the transition words (>= 3,
\* >= 1, none) and 3, 2 or 0 for the active-voice ratio (> 0.7, > 0.5,
\* else); so it has four findings and is at least 2.
C20_ReadabilityIsSumOfAwards ==
    (pc = "done" /\ response.status = 200) =>
       LET data        == fetched[1]
           words       == textWords(data.text)
           sentences   == textSentences(data.text)
           estimate    == calculateReadability(data.text)
           tier        == IF atLeast(estimate, 60000) /\ atMost(estimate, 70000) THEN 6
                          ELSE IF atLeast(estimate, 50000) /\ lessThan(estimate, 60000) THEN 4
                          ELSE IF moreThan(estimate, 70000) THEN 3
                          ELSE 1
           \* 10 <= words / sentences <= 20
           length      == IF sentences > 0 /\ 10 * sentences <= words /\ words <= 20 * sentences
                          THEN 3 ELSE 1
           transitions == Cardinality({w \in transitionWords : w \in foundIn(data.text)})
           passive     == Cardinality({w \in passiveVoiceWords : w \in foundIn(data.text)})
           \* 1 - passive / (words / 10) > 0.7, > 0.5
           voice       == IF words > 0 /\ 3 * words > 100 * passive THEN 3
                          ELSE IF words > 0 /\ 5 * words > 100 * passive THEN 2
                          ELSE 0
           readability == response.body.criteria.readability
       IN  /\ readability.score =
                 tier + length
                   + (IF transitions >= 3 THEN 3 ELSE IF transitions >= 1 THEN 1 ELSE 0)
                   + voice
           /\ Len(readability.details) = 4
           /\ readability.score >= 2

\* a document in the best tier whose sentences are too long
C20_Witness ==
    /\ pc = "done" /\ response.status = 200
    /\ response.body.criteria.readability.details[1] =
          pass("Optimal readability level (8th-9th grade)")
    /\ textWords(fetched[1].text) > 20 * textSentences(fetched[1].text)
    /\ response.body.criteria.readability.details[2] = fail("Sentences may be too long")
    /\ response.body.criteria.readability.score >= 7

\* C12: two calls of the handler share no mutable state.  In every step of
\* every interleaving, a step that changes one call's state leaves the
\* other call's state as it was, and the response a call finishes with is
\* the one it gives when run alone on its own request, its own fetch
\* result and the clock at that moment; once given, a response stays.
C12_CallsShareNoState ==
    [][LET alone(body, result, data, day) ==
              IF body.json # "object" THEN failure
              ELSE IF missing(body.url) THEN json([error |-> "URL is required"], 400)
              ELSE IF ~canParseUrl(body.url.value)
              THEN json([error |-> "Invalid URL format"], 400)
              ELSE IF result = "ok" THEN analyze(body.url.value, data[1], day)
              ELSE failure
           own == <<request, pc, fetches, outcome, fetched, response, responses>>
       IN  /\ peer' # peer => own' = own
           /\ own' # own => peer' = peer
           /\ (pc # "done" /\ pc' = "done") =>
                 /\ response' = alone(request, outcome', fetched', now)
                 /\ request' = request
           /\ (peer.pc # "done" /\ peer'.pc = "done") =>
                 /\ peer'.response =
                       alone(peer.request, peer'.outcome, peer'.fetched, now)
                 /\ peer'.request = peer.request
           /\ pc = "done" => response' = response
           /\ peer.pc = "done" => peer'.response = peer.response]_vars

\* both calls were suspended in their fetches at once, the second call
\* finished first, and the two have returned the analyses of two different
\* pages
C12_Witness ==
    /\ pc = "done" /\ response.status = 200
    /\ peer.pc = "done" /\ peer.response.status = 200
    /\ fetched # peer.fetched
    /\ response.body # peer.response.body
    /\ now > CHOOSE day \in ClockDays : \A other \in ClockDays : day <= other
    /\ \E day \in ClockDays :
          /\ day < now
          /\ peer.response = analyze(peer.request.url.value, peer.fetched[1], day)
          /\ response = analyze(request.url.value, fetched[1], now)
          /\ peer.response # analyze(peer.request.url.value, peer.fetched[1], now)

\* C21: the quote check of the citations criterion works on the number of
\* quote characters divided by two, unrounded: the third citations finding
\* is "Multiple quoted sources" with 3 points exactly when the text has at
\* least 6 quote characters, "Some quoted content" with 1 point exactly when
\* it has 2 to 5, and "No quoted sources" with no point when it has 0 or 1.
C21_QuotePairsUnrounded ==
    (pc = "done" /\ response.status = 200) =>
       LET quotes    == textQuotes(fetched[1].text)
           citations == response.body.criteria.citations
           links     == IF citations.details[1] = pass("Multiple external links (5+)") THEN 4
                        ELSE IF citations.details[1] = pass("Some external links") THEN 2
                        ELSE 0
           formal    == IF citations.details[2] = pass("Formal citations present") THEN 3 ELSE 0
           quoted    == citations.score - links - formal
       IN  /\ Len(citations.details) = 3
           /\ quotes >= 6 <=>
                 quoted = 3 /\ citations.details[3] = pass("Multiple quoted sources")
           /\ (quotes >= 2 /\ quotes <= 5) <=>
                 quoted = 1 /\ citations.details[3] = pass("Some quoted content")
           /\ quotes <= 1 <=>
                 quoted = 0 /\ citations.details[3] = fail("No quoted sources")

\* a page with five quote characters, two and a half pairs, has some quoted
\* content only
C21_Witness ==
    /\ pc = "done" /\ response.status = 200
    /\ textQuotes(fetched[1].text) = 5
    /\ response.body.criteria.citations.details[3] = pass("Some quoted content")

\* C22: a fetched document without visible text (no word, no sentence) is
\* analysed to the end: the answer is a 200 result in which every score is
\* a number within its range, the divisions by the zero counts yield NaN
\* and fall into the branches without an award, readability is exactly 2
\* (1 for the tier, 1 for the sentence length, nothing for transitions and
\* voice) and tone is exactly 3.
C22_EmptyTextIsScored ==
    (/\ pc = "done"
     /\ outcome = "ok"
     /\ fetched[1].isString
     /\ textWords(fetched[1].text) = 0
     /\ textSentences(fetched[1].text) = 0) =>
       /\ response.status = 200
       /\ \A c \in Criteria :
             response.body.criteria[c].score \in 0..response.body.criteria[c].max
       /\ response.body.totalScore \in 0..100
       /\ response.body.criteria.readability.score = 2
       /\ response.body.criteria.readability.details =
             <<fail("Complex readability (college level or higher)"),
               fail("Sentences may be too long"),
               fail("No transition words found"),
               fail("Excessive passive voice")>>
       /\ response.body.criteria.tone.score = 3
       /\ response.body.criteria.tone.details =
             <<pass("Non-promotional tone"), fail("Limited objective language")>>

\* a page of markup without any visible text has been analysed
C22_Witness ==
    /\ pc = "done" /\ response.status = 200
    /\ fetched[1].length > 0
    /\ textWords(fetched[1].text) = 0
    /\ textSentences(fetched[1].text) = 0
    /\ response.body.criteria.readability.score = 2
    /\ response.body.criteria.tone.score = 3

\* C23: the recommendations of every returned analysis are at most ten
\* advisory strings, no string twice, in the order structure, author,
\* metadata, keywords, tone, credibility, readability, freshness,
\* comprehensiveness, citations; the list is empty in the analysis as it is
\* first built, no evaluator and not the computation of the total puts
\* anything into it, and the strings it ends with are those of the criteria
\* whose final score is below their threshold.
C23_RecommendationsInOrder ==
    (pc = "done" /\ response.status = 200) =>
       LET order == <<"structure", "author", "metadata", "keywords", "tone",
                      "credibility", "readability", "freshness",
                      "comprehensiveness", "citations">>
           recs  == response.body.recommendations
           url   == request.url.value
           data  == fetched[1]
           built == initialAnalysis(url)
       IN  /\ Len(recs) <= 10
           /\ \A i, j \in 1..Len(recs) : recs[i] = recs[j] => i = j
           /\ \A i \in 1..Len(recs) : \E m \in 1..10 : recs[i] = advice(order[m])
           /\ \A i, j \in 1..Len(recs) :
                 i < j => \E m, n \in 1..10 :
                             /\ m < n
                             /\ recs[i] = advice(order[m])
                             /\ recs[j] = advice(order[n])
           /\ \A m \in 1..10 :
                 (\E i \in 1..Len(recs) : recs[i] = advice(order[m]))
                    <=> response.body.criteria[order[m]].score < threshold(order[m])
           /\ built.recommendations = <<>>
           /\ structureAnalysis(built, data).recommendations = <<>>
           /\ authorAnalysis(built, data).recommendations = <<>>
           /\ metadataAnalysis(built, data).recommendations = <<>>
           /\ keywordsAnalysis(built, data).recommendations = <<>>
           /\ toneAnalysis(built, data).recommendations = <<>>
           /\ credibilityAnalysis(built, data).recommendations = <<>>
           /\ readabilityAnalysis(built, data).recommendations = <<>>
           /\ freshnessAnalysis(built, data, now).recommendations = <<>>
           /\ comprehensivenessAnalysis(built, data).recommendations = <<>>
           /\ citationsAnalysis(built, data, url).recommendations = <<>>
           /\ aggregate(built).recommendations = <<>>

\* an analysis with several recommendations, but not all ten, the first for
\* the structure and the last for the citations
C23_Witness ==
    /\ pc = "done" /\ response.status = 200
    /\ Len(response.body.recommendations) \in 3..9
    /\ response.body.recommendations[1] = advice("structure")
    /\ response.body.recommendations[Len(response.body.recommendations)] = advice("citations")

\* C24: in every criterion of a returned analysis the prefixes of the
\* findings agree with the points: every finding carries the pass or the
\* fail prefix, a finding with the fail prefix stands for no point and one
\* with the pass prefix for at least one, so that a criterion whose
\* findings all fail scores 0 and a criterion scores at least as many
\* points as it has passing findings.
C24_PrefixAgreesWithPoints ==
    (pc = "done" /\ response.status = 200) =>
       \A c \in Criteria :
          LET details == response.body.criteria[c].details
              passing == {i \in 1..Len(details) :
                            SubSeq(details[i], 1, Len(pass(""))) = pass("")}
              failing == {i \in 1..Len(details) :
                            SubSeq(details[i], 1, Len(fail(""))) = fail("")}
          IN  /\ passing \cup failing = 1..Len(details)
              /\ response.body.criteria[c].score >= Cardinality(passing)
              /\ passing = {} => response.body.criteria[c].score = 0

\* C25: in every reachable state of the page component, whatever the
\* interleaving of its analyzeUrl calls, a non-empty error and a result
\* that is not null are never both set: the page never shows the error
\* alert and an analysis at the same time.
C25_NeverErrorAndResult ==
    ~(page.error # "" /\ page.result # <<>>)

\* C26: in the page component loading is true exactly while an analysis
\* request is in flight: it is set before a call's request starts, it is
\* false once no started request is left, and it is never false while some
\* started request has not yet settled.
C26_LoadingWhileInFlight ==
    page.loading <=> Len(page.calls) > 0

\* C27: the page renders a finding of the shown result with the success
\* icon exactly when the scoring engine emitted it with its pass marker,
\* and with the failure icon exactly when it was emitted with the fail
\* marker.
C27_IconMatchesMarker ==
    page.result # <<>> =>
       \A c \in Criteria :
          LET details == page.result[1].criteria[c].details
          IN  \A i \in 1..Len(details) :
                 /\ detailIcon(details[i]) = "CheckCircle"
                       <=> SubSeq(details[i], 1, Len(pass(""))) = pass("")
                 /\ detailIcon(details[i]) = "XCircle"
                       <=> SubSeq(details[i], 1, Len(fail(""))) = fail("")

=============================================================================
